---- MODULE Spec2Model ----
(***************************************************************************)
(* Model of chess_core/clocks.py (ChessClocks, the authoritative clock     *)
(* state machine) and of review/reviewer.py (review_pgn, the move-quality  *)
(* review pipeline).                                                       *)
(*                                                                         *)
(* Clock: the variable `state` is ChessClocks.state (a ClockState), `now`  *)
(* is the value of the time source _now_ms(), `view` is the value returned *)
(* by the last call (the snapshot() dict, or NoView for the calls that     *)
(* return None), `call` names the last call and its argument.  `acct` is a *)
(* history variable: the wall-clock time gone by while the clock ran.      *)
(*                                                                         *)
(* Every handler is a pure operator over the ClockState record; the        *)
(* instants t1 <= t2 <= t3 are the successive values _now_ms() returns to  *)
(* the reads the handler makes (the time source may advance between two    *)
(* reads of one call).                                                     *)
(***************************************************************************)
EXTENDS Integers, Sequences, FiniteSets, TLC

VARIABLES state, now, view, call, acct

cvars == <<state, now, view, call, acct>>

\* Review: `pgn` is the game record given to review_pgn, `rpc` the position of the call
\* (at its entry, before the analyzer call made before a move, before the one made
\* after it, or returned), `ply`, `engine_name`, `a_before`, `moves_data` are its locals,
\* `board` counts the moves pushed on its board, `result` is the ReviewSummary it returns
\* and `calls` is the log of the analyzer calls it has made (a history variable).
VARIABLES pgn, rpc, ply, board, engine_name, a_before, moves_data, result, calls

rvars == <<pgn, rpc, ply, board, engine_name, a_before, moves_data, result, calls>>

\* Concurrent callers of one clock: `threads` are two calls in progress on the clock
\* `state` (each with its operation, its argument, its position in the code and its local
\* `elapsed`), `entry` is the ClockState at the moment the two calls were issued.
VARIABLES threads, entry

kvars == <<threads, entry>>

\* Single-game web server (ui_web/app.py): `game` is the move stack of the global
\* ChessGame's board, `clocks` the global Clocks, `resp` the JSON of the last response
\* together with the request it answers.
VARIABLES game, clocks, resp

svars == <<game, clocks, resp>>

\* Functions of the engine adapter (engine/stockfish_adapter.py) applied to one input:
\* `fn_in` is the call (the function, its arguments and the environment it reads),
\* `fn_out` what it returned.
VARIABLES fn_in, fn_out

fvars == <<fn_in, fn_out>>

vars == <<cvars, rvars, kvars, svars, fvars>>

\* ---------------------------------------------------------------- bounds
MaxBase == 3        \* base_ms ranges over 0..MaxBase
MaxInc == 1         \* inc_ms ranges over 0..MaxInc
MaxNow == 3         \* the time source runs from 0 to MaxNow
MaxDrift == 1       \* largest advance of the time source between two reads of one call
MaxMs == 3          \* on_move is not taken when it would push a remaining time above MaxMs

\* ------------------------------------------------------------- constants
NoTime == -1                     \* started_at_ms = None
NoSide == "none"                 \* flagged = None
Sides == {"w", "b"}              \* the valid side tokens
Tokens == {"w", "b", "x"}        \* side arguments a caller may pass ("x": any other value, None included)
NoView == [op |-> "none"]        \* the calls other than snapshot() return None

\* ------------------------------------------------------------ ClockState
ClockState(base_ms, inc_ms, turn) ==
    [base_ms |-> base_ms, inc_ms |-> inc_ms, w_ms |-> base_ms, b_ms |-> base_ms,
     running |-> FALSE, turn |-> turn, started_at_ms |-> NoTime, flagged |-> NoSide]


\* Variants of _apply_elapsed with a plausible slip: no floor at zero; no latch of the flag.
apply_elapsed_nofloor(s, t1, t2) ==
    IF ~s.running \/ s.started_at_ms = NoTime \/ s.flagged # NoSide
    THEN s
    ELSE LET elapsed == t1 - s.started_at_ms IN
         IF s.turn = "w"
         THEN [s EXCEPT !.w_ms = @ - elapsed,
                        !.flagged = IF s.w_ms - elapsed <= 0 THEN "w" ELSE @,
                        !.started_at_ms = t2]
         ELSE [s EXCEPT !.b_ms = @ - elapsed,
                        !.flagged = IF s.b_ms - elapsed <= 0 THEN "b" ELSE @,
                        !.started_at_ms = t2]

apply_elapsed_nolatch(s, t1, t2) ==
    IF ~s.running \/ s.started_at_ms = NoTime \/ s.flagged # NoSide
    THEN s
    ELSE LET elapsed == t1 - s.started_at_ms IN
         IF s.turn = "w"
         THEN [s EXCEPT !.w_ms = IF @ - elapsed <= 0 THEN 0 ELSE @ - elapsed,
                        !.started_at_ms = t2]
         ELSE [s EXCEPT !.b_ms = IF @ - elapsed <= 0 THEN 0 ELSE @ - elapsed,
                        !.started_at_ms = t2]

\* _apply_elapsed: t1 is the read that measures elapsed, t2 the read stored in started_at_ms
apply_elapsed(s, t1, t2) ==
    IF ~s.running \/ s.started_at_ms = NoTime \/ s.flagged # NoSide
    THEN s
    ELSE LET elapsed == t1 - s.started_at_ms IN
         IF s.turn = "w"
         THEN LET w == s.w_ms - elapsed IN
              [s EXCEPT !.w_ms = IF w <= 0 THEN 0 ELSE w,
                        !.flagged = IF w <= 0 THEN "w" ELSE @,
                        !.started_at_ms = t2]
         ELSE LET b == s.b_ms - elapsed IN
              [s EXCEPT !.b_ms = IF b <= 0 THEN 0 ELSE b,
                        !.flagged = IF b <= 0 THEN "b" ELSE @,
                        !.started_at_ms = t2]


\* Variants of start with a plausible slip: a start with a side clears the flag; a start
\* on a running clock stamps started_at_ms again.
start_clears_flag(s, turn, t) ==
    LET s1 == IF turn \in Sides THEN [s EXCEPT !.turn = turn, !.flagged = NoSide] ELSE s IN
    IF s1.flagged # NoSide THEN s1
    ELSE IF ~s1.running THEN [s1 EXCEPT !.running = TRUE, !.started_at_ms = t]
    ELSE s1

start_restamps(s, turn, t) ==
    LET s1 == IF turn \in Sides THEN [s EXCEPT !.turn = turn] ELSE s IN
    IF s1.flagged # NoSide THEN s1
    ELSE [s1 EXCEPT !.running = TRUE, !.started_at_ms = t]

\* start(turn): t is its single read of the time source
start(s, turn, t) ==
    LET s1 == IF turn \in Sides THEN [s EXCEPT !.turn = turn] ELSE s IN
    IF s1.flagged # NoSide THEN s1
    ELSE IF ~s1.running THEN [s1 EXCEPT !.running = TRUE, !.started_at_ms = t]
    ELSE s1


\* Variant of pause with a plausible slip: started_at_ms is not cleared.
pause_keeps_stamp(s, t1, t2) ==
    IF ~s.running THEN s
    ELSE [apply_elapsed(s, t1, t2) EXCEPT !.running = FALSE]

pause(s, t1, t2) ==
    IF ~s.running THEN s
    ELSE [apply_elapsed(s, t1, t2) EXCEPT !.running = FALSE, !.started_at_ms = NoTime]

reset(s, turn, t1, t2) ==
    [pause(s, t1, t2) EXCEPT !.w_ms = s.base_ms, !.b_ms = s.base_ms,
                             !.flagged = NoSide, !.turn = turn]

\* Variant of configure with a plausible slip: the clock is left stopped whether or not it
\* was running.
configure_stays_paused(s, base_ms, inc_ms, turn, t1, t2, t3) ==
    ClockState(base_ms, inc_ms, turn)

\* configure: t1, t2 are the reads of its pause(), whose result the fresh ClockState
\* replaces; t3 is the read of the start() that follows when the clock was running
configure(s, base_ms, inc_ms, turn, t1, t2, t3) ==
    LET was_running == s.running
        fresh == ClockState(base_ms, inc_ms, turn)
    IN  IF was_running THEN start(fresh, turn, t3) ELSE fresh


\* Variants of on_move with a plausible slip: no early return on a flagged clock; the
\* turn is not passed; the increment is credited twice.
on_move_noguard(s, moved_by, t1, t2, t3) ==
    LET s1 == IF s.running THEN apply_elapsed(s, t1, t2) ELSE s
        s2 == IF moved_by = "w" /\ s1.w_ms > 0
                THEN [s1 EXCEPT !.w_ms = @ + s1.inc_ms]
              ELSE IF moved_by = "b" /\ s1.b_ms > 0
                THEN [s1 EXCEPT !.b_ms = @ + s1.inc_ms]
              ELSE s1
        s3 == [s2 EXCEPT !.turn = IF moved_by = "w" THEN "b" ELSE "w"]
    IN  IF s3.flagged = NoSide
        THEN [s3 EXCEPT !.started_at_ms = t3, !.running = TRUE]
        ELSE s3

on_move_keeps_turn(s, moved_by, t1, t2, t3) ==
    IF s.flagged # NoSide THEN s
    ELSE LET s1 == IF s.running THEN apply_elapsed(s, t1, t2) ELSE s
             s2 == IF moved_by = "w" /\ s1.w_ms > 0
                     THEN [s1 EXCEPT !.w_ms = @ + s1.inc_ms]
                   ELSE IF moved_by = "b" /\ s1.b_ms > 0
                     THEN [s1 EXCEPT !.b_ms = @ + s1.inc_ms]
                   ELSE s1
         IN  IF s2.flagged = NoSide
             THEN [s2 EXCEPT !.started_at_ms = t3, !.running = TRUE]
             ELSE s2

on_move_double_inc(s, moved_by, t1, t2, t3) ==
    IF s.flagged # NoSide THEN s
    ELSE LET s1 == IF s.running THEN apply_elapsed(s, t1, t2) ELSE s
             s2 == IF moved_by = "w" /\ s1.w_ms > 0
                     THEN [s1 EXCEPT !.w_ms = @ + 2 * s1.inc_ms]
                   ELSE IF moved_by = "b" /\ s1.b_ms > 0
                     THEN [s1 EXCEPT !.b_ms = @ + 2 * s1.inc_ms]
                   ELSE s1
             s3 == [s2 EXCEPT !.turn = IF moved_by = "w" THEN "b" ELSE "w"]
         IN  IF s3.flagged = NoSide
             THEN [s3 EXCEPT !.started_at_ms = t3, !.running = TRUE]
             ELSE s3

\* Variant of on_move with a plausible slip: the increment is credited to the mover
\* whatever time it has left.
on_move_credits_flagged(s, moved_by, t1, t2, t3) ==
    IF s.flagged # NoSide THEN s
    ELSE LET s1 == IF s.running THEN apply_elapsed(s, t1, t2) ELSE s
             s2 == IF moved_by = "w"
                     THEN [s1 EXCEPT !.w_ms = @ + s1.inc_ms]
                   ELSE IF moved_by = "b"
                     THEN [s1 EXCEPT !.b_ms = @ + s1.inc_ms]
                   ELSE s1
             s3 == [s2 EXCEPT !.turn = IF moved_by = "w" THEN "b" ELSE "w"]
         IN  IF s3.flagged = NoSide
             THEN [s3 EXCEPT !.started_at_ms = t3, !.running = TRUE]
             ELSE s3

on_move(s, moved_by, t1, t2, t3) ==
    IF s.flagged # NoSide THEN s
    ELSE LET s1 == IF s.running THEN apply_elapsed(s, t1, t2) ELSE s
             s2 == IF moved_by = "w" /\ s1.w_ms > 0
                     THEN [s1 EXCEPT !.w_ms = @ + s1.inc_ms]
                   ELSE IF moved_by = "b" /\ s1.b_ms > 0
                     THEN [s1 EXCEPT !.b_ms = @ + s1.inc_ms]
                   ELSE s1
             s3 == [s2 EXCEPT !.turn = IF moved_by = "w" THEN "b" ELSE "w"]
         IN  IF s3.flagged = NoSide
             THEN [s3 EXCEPT !.started_at_ms = t3, !.running = TRUE]
             ELSE s3

Max0(x) == IF x < 0 THEN 0 ELSE x

\* Variant of snapshot() with a plausible slip: the view reports the stored flag only, so
\* a side whose live time has run out is not yet shown as flagged.
snapshot_stored_flag(s, t) ==
    LET live == s.running /\ s.started_at_ms # NoTime /\ s.flagged = NoSide
        elapsed == t - s.started_at_ms
        w_ms == IF live /\ s.turn = "w" THEN Max0(s.w_ms - elapsed) ELSE s.w_ms
        b_ms == IF live /\ s.turn # "w" THEN Max0(s.b_ms - elapsed) ELSE s.b_ms
    IN  [op |-> "snapshot", base_ms |-> s.base_ms, inc_ms |-> s.inc_ms,
         w_ms |-> w_ms, b_ms |-> b_ms, running |-> s.running, turn |-> s.turn,
         flagged |-> s.flagged]

\* snapshot(): t is its single read of the time source
snapshot(s, t) ==
    LET live == s.running /\ s.started_at_ms # NoTime /\ s.flagged = NoSide
        elapsed == t - s.started_at_ms
        w_ms == IF live /\ s.turn = "w" THEN Max0(s.w_ms - elapsed) ELSE s.w_ms
        b_ms == IF live /\ s.turn # "w" THEN Max0(s.b_ms - elapsed) ELSE s.b_ms
        flagged == IF s.flagged # NoSide THEN s.flagged
                   ELSE IF w_ms <= 0 THEN "w"
                   ELSE IF b_ms <= 0 THEN "b"
                   ELSE NoSide
    IN  [op |-> "snapshot", base_ms |-> s.base_ms, inc_ms |-> s.inc_ms,
         w_ms |-> w_ms, b_ms |-> b_ms, running |-> s.running, turn |-> s.turn,
         flagged |-> flagged]

\* ----------------------------------------------------- history variable
\* ran: wall-clock ms gone by while state.running since the clock was built, configured
\* or reset; moved: on_move was called since then; switched: start(side) changed the
\* active side since then.
Acct0 == [ran |-> 0, moved |-> FALSE, switched |-> FALSE]

\* ------------------------------------------------- review: absent values
\* Optional[int]: None, or an int
NoneInt == [some |-> FALSE, v |-> 0]
Some(v) == [some |-> TRUE, v |-> v]
NoneStr == "None"                \* Optional[str] = None
NoEval == [type |-> "none", value |-> NoneInt]
NoResult == [ok |-> FALSE, error |-> NoneStr, moves |-> <<>>, pending |-> TRUE]
NoAnswer == [ok |-> FALSE, error |-> NoneStr, version |-> NoneStr, eval |-> NoEval,
             bestmove |-> NoneStr]

\* no adapter function is being applied
NoCall == [fn |-> "none"]
NoReturn == [returned |-> FALSE]
FnIdle == fn_in = NoCall /\ fn_out = NoReturn

\* no concurrent calls are in progress
NoLocals == [w_ms |-> 0, b_ms |-> 0, flagged |-> NoSide]
NoThread == [op |-> "none", arg |-> "none", pc |-> "idle", ret |-> "none", elapsed |-> 0,
             local |-> NoLocals, value |-> NoView]
ThreadsIdle ==
    /\ threads = [i \in 1..2 |-> NoThread]
    /\ entry = ClockState(0, 0, "w")

\* the web server is not in use
NoResp == [op |-> "none", uci |-> "none", success |-> FALSE]
WebIdle ==
    /\ game = <<>>
    /\ clocks = [w_ms |-> 0, b_ms |-> 0, increment |-> 0, running |-> FALSE, turn |-> "w",
                 last_ts |-> NoTime, flagged |-> FALSE]
    /\ resp = NoResp

\* no review is in progress (the clock's specification)
ReviewIdle ==
    /\ pgn = [parsed |-> FALSE, plies |-> 0]
    /\ rpc = "idle"
    /\ ply = 0 /\ board = 0 /\ engine_name = NoneStr /\ a_before = NoAnswer
    /\ moves_data = <<>> /\ result = NoResult /\ calls = <<>>

\* ------------------------------------------------------------------ Init
Init ==
    /\ \E base \in 0..MaxBase, inc \in 0..MaxInc, turn \in Tokens :
          state = ClockState(base, inc, turn)
    /\ now = 0
    /\ view = NoView
    /\ call = [op |-> "init", arg |-> "none"]
    /\ acct = Acct0
    /\ ReviewIdle /\ ThreadsIdle /\ WebIdle /\ FnIdle

\* --------------------------------------------------------------- actions
\* The time source advances by one millisecond between two calls.
Tick ==
    /\ now + 1 <= MaxNow
    /\ now' = now + 1
    /\ acct' = [acct EXCEPT !.ran = IF state.running THEN @ + 1 ELSE @]
    /\ UNCHANGED <<rvars, kvars, svars, fvars>>
    /\ call' = [op |-> "tick", arg |-> "none"]
    /\ view' = NoView
    /\ state' = state

Start ==
    \E turn \in Tokens :
       /\ state' = start(state, turn, now)
       /\ now' = now
       /\ view' = NoView
       /\ call' = [op |-> "start", arg |-> turn]
       /\ acct' = [acct EXCEPT !.switched = @ \/ state'.turn # state.turn]
       /\ UNCHANGED <<rvars, kvars, svars, fvars>>

Pause ==
    \E d \in 0..MaxDrift :
       /\ now + d <= MaxNow
       /\ state' = pause(state, now, now + d)
       /\ now' = now + d
       /\ view' = NoView
       /\ call' = [op |-> "pause", arg |-> "none"]
       /\ acct' = acct
       /\ UNCHANGED <<rvars, kvars, svars, fvars>>

Reset ==
    \E turn \in Tokens, d \in 0..MaxDrift :
       /\ now + d <= MaxNow
       /\ state' = reset(state, turn, now, now + d)
       /\ now' = now + d
       /\ view' = NoView
       /\ call' = [op |-> "reset", arg |-> turn]
       /\ acct' = Acct0
       /\ UNCHANGED <<rvars, kvars, svars, fvars>>

Configure ==
    \E base \in 0..MaxBase, inc \in 0..MaxInc, turn \in Tokens,
       d \in 0..MaxDrift :
       /\ now + d <= MaxNow
       /\ state' = configure(state, base, inc, turn, now, now, now + d)
       /\ now' = now + d
       /\ view' = NoView
       /\ call' = [op |-> "configure", arg |-> turn, base_ms |-> base, inc_ms |-> inc]
       /\ acct' = Acct0
       /\ UNCHANGED <<rvars, kvars, svars, fvars>>

OnMove ==
    \E moved_by \in Tokens, d1 \in 0..MaxDrift, d2 \in 0..MaxDrift :
       /\ now + d1 + d2 <= MaxNow
       /\ state' = on_move(state, moved_by, now, now + d1, now + d1 + d2)
       /\ state'.w_ms <= MaxMs /\ state'.b_ms <= MaxMs
       /\ now' = now + d1 + d2
       /\ view' = NoView
       /\ call' = [op |-> "on_move", arg |-> moved_by]
       /\ acct' = [acct EXCEPT !.moved = TRUE,
                               !.ran = IF state.running THEN @ + d1 + d2 ELSE @]
       /\ UNCHANGED <<rvars, kvars, svars, fvars>>


\* Variant of snapshot() with a plausible slip: the live elapsed time is committed to the
\* stored state ("applies live elapsed") instead of only being shown in the view.
Snapshot_commits ==
    /\ view' = snapshot(state, now)
    /\ state' = apply_elapsed(state, now, now)
    /\ now' = now
    /\ call' = [op |-> "snapshot", arg |-> "none"]
    /\ acct' = acct
    /\ UNCHANGED <<rvars, kvars, svars, fvars>>

Snapshot ==
    /\ view' = snapshot(state, now)
    /\ state' = state
    /\ now' = now
    /\ call' = [op |-> "snapshot", arg |-> "none"]
    /\ acct' = acct
    /\ UNCHANGED <<rvars, kvars, svars, fvars>>

Next == Tick \/ Start \/ Pause \/ Reset \/ Configure \/ OnMove \/ Snapshot

Spec == Init /\ [][Next]_vars

\* ======================================================== review pipeline
MaxPly == 2         \* the reviewed game has 0..MaxPly plies

\* the mainline of the game record of tests/test_review.py
Scholars == <<"e2e4", "e7e5", "f1c4", "b8c6", "d1h5", "g8f6", "h5f7">>
OtherMove == "a2a3"              \* a move the game does not play

\* analyze_fen: what the analyzer may answer.  A failure carries an error that may be
\* absent, empty or a message; a success carries the engine's name, an evaluation from the
\* side to move ({"type": "cp"|"mate", "value": int|None}) and a best move.
EvalsBefore == {[type |-> "cp", value |-> Some(0)], [type |-> "cp", value |-> NoneInt],
                [type |-> "mate", value |-> Some(1)]}
EvalsAfter == {[type |-> "cp", value |-> Some(0)], [type |-> "cp", value |-> Some(10)],
               [type |-> "cp", value |-> Some(11)], [type |-> "cp", value |-> Some(40)],
               [type |-> "cp", value |-> Some(150)], [type |-> "cp", value |-> NoneInt],
               [type |-> "mate", value |-> Some(1)]}
Errors == {NoneStr, "", "Stockfish not found"}

AnalyzerFailures ==
    {[ok |-> FALSE, error |-> e, version |-> NoneStr, eval |-> NoEval, bestmove |-> NoneStr]
        : e \in Errors}
AnalyzerAnswers(evals, bestmoves) ==
    {[ok |-> TRUE, error |-> NoneStr, version |-> "Stockfish", eval |-> e, bestmove |-> b]
        : e \in evals, b \in bestmoves}

\* Python's `x or y` on an Optional[str]
Or(x, y) == IF x = NoneStr \/ x = "" THEN y ELSE x

Abs(x) == IF x < 0 THEN -x ELSE x

THRESHOLD_inaccuracy == 50
THRESHOLD_mistake == 100
THRESHOLD_blunder == 300

cp_from_eval(eval_obj) ==
    IF eval_obj = NoEval THEN NoneInt
    ELSE IF eval_obj.type = "cp" THEN eval_obj.value
    ELSE NoneInt

\* Variant of _classify with a plausible slip: the thresholds are compared with > instead
\* of >=.
classify_strict(cp_loss, before_eval, after_eval) ==
    IF (before_eval # NoEval /\ before_eval.type = "mate")
         \/ (after_eval # NoEval /\ after_eval.type = "mate")
    THEN "Mate"
    ELSE IF ~cp_loss.some THEN "Good"
    ELSE LET loss == Abs(cp_loss.v) IN
         IF loss > THRESHOLD_blunder THEN "Blunder"
         ELSE IF loss > THRESHOLD_mistake THEN "Mistake"
         ELSE IF loss > THRESHOLD_inaccuracy THEN "Inaccuracy"
         ELSE "Good"

\* Variant of _classify with a plausible slip: a move whose loss cannot be computed gets
\* a verdict of its own, which has no bucket in the counts.
classify_unknown(cp_loss, before_eval, after_eval) ==
    IF (before_eval # NoEval /\ before_eval.type = "mate")
         \/ (after_eval # NoEval /\ after_eval.type = "mate")
    THEN "Mate"
    ELSE IF ~cp_loss.some THEN "Unknown"
    ELSE LET loss == Abs(cp_loss.v) IN
         IF loss >= THRESHOLD_blunder THEN "Blunder"
         ELSE IF loss >= THRESHOLD_mistake THEN "Mistake"
         ELSE IF loss >= THRESHOLD_inaccuracy THEN "Inaccuracy"
         ELSE "Good"

classify(cp_loss, before_eval, after_eval) ==
    IF (before_eval # NoEval /\ before_eval.type = "mate")
         \/ (after_eval # NoEval /\ after_eval.type = "mate")
    THEN "Mate"
    ELSE IF ~cp_loss.some THEN "Good"
    ELSE LET loss == Abs(cp_loss.v) IN
         IF loss >= THRESHOLD_blunder THEN "Blunder"
         ELSE IF loss >= THRESHOLD_mistake THEN "Mistake"
         ELSE IF loss >= THRESHOLD_inaccuracy THEN "Inaccuracy"
         ELSE "Good"

\* Variant of _score_from_cp_loss with a plausible slip: the sign of the loss is kept, so
\* every negative loss scores 1.0.
score_from_cp_loss_signed(cp_loss) ==
    IF ~cp_loss.some THEN 900
    ELSE LET x == cp_loss.v IN
         IF x <= 0 THEN 1000
         ELSE IF x <= 50 THEN 900
         ELSE IF x <= 100 THEN 800
         ELSE IF x <= 200 THEN 650
         ELSE IF x <= 300 THEN 500
         ELSE IF x <= 500 THEN 300
         ELSE 200

\* _score_from_cp_loss, in thousandths (1.0 = 1000)
score_from_cp_loss(cp_loss) ==
    IF ~cp_loss.some THEN 900
    ELSE LET x == Abs(cp_loss.v) IN
         IF x <= 0 THEN 1000
         ELSE IF x <= 50 THEN 900
         ELSE IF x <= 100 THEN 800
         ELSE IF x <= 200 THEN 650
         ELSE IF x <= 300 THEN 500
         ELSE IF x <= 500 THEN 300
         ELSE 200

\* Variant of the MoveReview with a plausible slip: the value after the move is not
\* negated to the mover's side, so the loss is the difference of the two raw values.
move_review_raw_after(p, mv, before, eval_after) ==
    LET eval_before == before.eval
        cp_before == cp_from_eval(eval_before)
        cp_after_raw == cp_from_eval(eval_after)
        cp_loss == IF cp_before.some /\ cp_after_raw.some
                   THEN Some(cp_before.v - cp_after_raw.v) ELSE NoneInt
    IN  [ply |-> p, move_uci |-> mv, side |-> IF p % 2 = 1 THEN "White" ELSE "Black",
         cp_loss |-> cp_loss, verdict |-> classify(cp_loss, eval_before, eval_after),
         eval_before |-> eval_before, eval_after |-> eval_after,
         bestmove_uci |-> before.bestmove]

\* the MoveReview of one ply (lines 177-205); move_san and pv_san, which nothing reads,
\* are left out
move_review(p, mv, before, eval_after) ==
    LET eval_before == before.eval
        cp_before == cp_from_eval(eval_before)
        cp_after_raw == cp_from_eval(eval_after)
        cp_after_for_mover == IF cp_after_raw.some THEN Some(-cp_after_raw.v) ELSE NoneInt
        cp_loss == IF cp_before.some /\ cp_after_for_mover.some
                   THEN Some(cp_before.v - cp_after_for_mover.v) ELSE NoneInt
    IN  [ply |-> p, move_uci |-> mv, side |-> IF p % 2 = 1 THEN "White" ELSE "Black",
         cp_loss |-> cp_loss, verdict |-> classify(cp_loss, eval_before, eval_after),
         eval_before |-> eval_before, eval_after |-> eval_after,
         bestmove_uci |-> before.bestmove]

Verdicts == {"Best", "Good", "Inaccuracy", "Mistake", "Blunder", "Mate"}

\* Variant of the bucket with a plausible slip: a move within 10 centipawns counts as Best
\* whether or not it is the move the analyzer named.
bucket_any_move(m) ==
    IF m.verdict = "Mate" THEN "Mate"
    ELSE IF m.cp_loss.some /\ Abs(m.cp_loss.v) <= 10 THEN "Best"
    ELSE m.verdict

\* the bucket a MoveReview is counted in (lines 217-227)
bucket(m) ==
    IF m.verdict = "Mate" THEN "Mate"
    ELSE IF m.cp_loss.some /\ Abs(m.cp_loss.v) <= 10 /\ m.bestmove_uci = m.move_uci THEN "Best"
    ELSE m.verdict

RECURSIVE SumScores(_)
SumScores(md) ==
    IF md = <<>> THEN 0 ELSE score_from_cp_loss(md[1].cp_loss) + SumScores(Tail(md))

\* round(x, 1) of the percentage n / d * 100 with n in thousandths: the result in tenths
\* of a percent, halves rounded to even
RoundTenths(n, d) ==
    LET q == n \div d
        r == n % d
    IN  IF 2 * r < d THEN q
        ELSE IF 2 * r > d THEN q + 1
        ELSE IF q % 2 = 0 THEN q ELSE q + 1

\* accuracy_percent (lines 229-234), in tenths of a percent
accuracy_percent(md) ==
    IF md # <<>> THEN Some(RoundTenths(SumScores(md), Len(md))) ELSE NoneInt

\* Variant of the summary with a plausible slip: an empty review reports accuracy 0.0
\* instead of no accuracy.
summary_zero_accuracy(md, engine) ==
    [moves |-> md,
     counts |-> [v \in Verdicts |-> Cardinality({i \in 1..Len(md) : bucket(md[i]) = v})],
     accuracy_percent |-> IF md # <<>> THEN Some(RoundTenths(SumScores(md), Len(md)))
                          ELSE Some(0),
     engine |-> engine, ok |-> TRUE, error |-> NoneStr]

\* the successful ReviewSummary (lines 207-243)
summary(md, engine) ==
    [moves |-> md,
     counts |-> [v \in Verdicts |-> Cardinality({i \in 1..Len(md) : bucket(md[i]) = v})],
     accuracy_percent |-> accuracy_percent(md),
     engine |-> engine, ok |-> TRUE, error |-> NoneStr]

\* Variant of the failure return with a plausible slip: the MoveReviews computed so far
\* are handed back with the error.
engine_failure_partial(a, md) ==
    [moves |-> md, counts |-> [v \in {} |-> 0], accuracy_percent |-> NoneInt,
     engine |-> NoneStr, ok |-> FALSE, error |-> Or(a.error, "Engine unavailable")]

\* the ReviewSummary returned when an analyzer call fails (lines 140-149, 166-174)
engine_failure(a, md) ==
    [moves |-> <<>>, counts |-> [v \in {} |-> 0], accuracy_percent |-> NoneInt,
     engine |-> NoneStr, ok |-> FALSE, error |-> Or(a.error, "Engine unavailable")]

parse_failure ==
    [moves |-> <<>>, counts |-> [v \in {} |-> 0], accuracy_percent |-> NoneInt,
     engine |-> NoneStr, ok |-> FALSE, error |-> "Could not parse PGN"]

\* game.mainline_moves() of a record that parsed
Mainline == SubSeq(Scholars, 1, pgn.plies)

\* no clock is in use (the review's specification)
ClockIdle ==
    /\ state = ClockState(0, 0, "w") /\ now = 0 /\ view = NoView
    /\ call = [op |-> "init", arg |-> "none"] /\ acct = Acct0

ReviewInit ==
    /\ pgn \in {[parsed |-> FALSE, plies |-> 0]}
                  \cup {[parsed |-> TRUE, plies |-> n] : n \in 0..MaxPly}
    /\ rpc = "entry"
    /\ ply = 0 /\ board = 0 /\ engine_name = NoneStr /\ a_before = NoAnswer
    /\ moves_data = <<>> /\ result = NoResult /\ calls = <<>>
    /\ ClockIdle /\ ThreadsIdle /\ WebIdle /\ FnIdle

\* lines 119-129, and 207-243 when the mainline is empty
Parse ==
    /\ rpc = "entry"
    /\ IF ~pgn.parsed THEN result' = parse_failure /\ rpc' = "returned"
       ELSE IF pgn.plies = 0 THEN result' = summary(<<>>, engine_name) /\ rpc' = "returned"
       ELSE result' = result /\ rpc' = "before"
    /\ UNCHANGED <<pgn, ply, board, engine_name, a_before, moves_data, calls>>
    /\ UNCHANGED <<cvars, kvars, svars, fvars>>

\* Variant of the call before the move with a plausible slip: the move is pushed first,
\* so the analyzer sees the position after it.
AnalyzeBeforeOn_pushed_first(evals, bestmoves) ==
    /\ rpc = "before"
    /\ ply' = ply + 1
    /\ \E a \in AnalyzerFailures
              \cup AnalyzerAnswers(evals, {Mainline[ply + 1]} \cup bestmoves) :
          /\ calls' = Append(calls, [kind |-> "before", position |-> board + 1, ok |-> a.ok])
          /\ IF ~a.ok
             THEN /\ result' = engine_failure(a, moves_data)
                  /\ rpc' = "returned"
                  /\ UNCHANGED <<board, engine_name, a_before>>
             ELSE /\ engine_name' = a.version
                  /\ a_before' = a
                  /\ board' = board + 1
                  /\ rpc' = "after"
                  /\ result' = result
    /\ UNCHANGED <<pgn, moves_data>>
    /\ UNCHANGED <<cvars, kvars, svars, fvars>>

\* Variant of the call after the move with a plausible slip: a failed call skips the
\* MoveReview of its ply and the loop goes on to the next move.
AnalyzeAfterOn_carries_on(evals) ==
    /\ rpc = "after"
    /\ \E a \in AnalyzerFailures \cup AnalyzerAnswers(evals, {NoneStr}) :
          /\ calls' = Append(calls, [kind |-> "after", position |-> board, ok |-> a.ok])
          /\ IF ~a.ok
             THEN /\ moves_data' = moves_data
                  /\ IF ply = pgn.plies
                     THEN result' = engine_failure(a, moves_data) /\ rpc' = "returned"
                     ELSE result' = result /\ rpc' = "before"
             ELSE /\ moves_data' = Append(moves_data,
                                          move_review(ply, Mainline[ply], a_before, a.eval))
                  /\ IF ply = pgn.plies
                     THEN result' = summary(moves_data', engine_name) /\ rpc' = "returned"
                     ELSE result' = result /\ rpc' = "before"
    /\ UNCHANGED <<pgn, ply, board, engine_name, a_before>>
    /\ UNCHANGED <<cvars, kvars, svars, fvars>>

\* lines 129-157: the next move of the mainline, the analyzer call on the position
\* before it, and, when the call succeeds, the move pushed on the board
AnalyzeBeforeOn(evals, bestmoves) ==
    /\ rpc = "before"
    /\ ply' = ply + 1
    /\ \E a \in AnalyzerFailures
              \cup AnalyzerAnswers(evals, {Mainline[ply + 1]} \cup bestmoves) :
          /\ calls' = Append(calls, [kind |-> "before", position |-> board, ok |-> a.ok])
          /\ IF ~a.ok
             THEN /\ result' = engine_failure(a, moves_data)
                  /\ rpc' = "returned"
                  /\ UNCHANGED <<board, engine_name, a_before>>
             ELSE /\ engine_name' = a.version
                  /\ a_before' = a
                  /\ board' = board + 1
                  /\ rpc' = "after"
                  /\ result' = result
    /\ UNCHANGED <<pgn, moves_data>>
    /\ UNCHANGED <<cvars, kvars, svars, fvars>>

\* lines 159-205: the analyzer call on the position after the move and the MoveReview;
\* after the last move, the summary (lines 207-243)
AnalyzeAfterOn(evals) ==
    /\ rpc = "after"
    /\ \E a \in AnalyzerFailures \cup AnalyzerAnswers(evals, {NoneStr}) :
          /\ calls' = Append(calls, [kind |-> "after", position |-> board, ok |-> a.ok])
          /\ IF ~a.ok
             THEN /\ result' = engine_failure(a, moves_data)
                  /\ rpc' = "returned"
                  /\ moves_data' = moves_data
             ELSE /\ moves_data' = Append(moves_data,
                                          move_review(ply, Mainline[ply], a_before, a.eval))
                  /\ IF ply = pgn.plies
                     THEN result' = summary(moves_data', engine_name) /\ rpc' = "returned"
                     ELSE result' = result /\ rpc' = "before"
    /\ UNCHANGED <<pgn, ply, board, engine_name, a_before>>
    /\ UNCHANGED <<cvars, kvars, svars, fvars>>

\* the review with an analyzer that answers from a few evaluations and may name no best
\* move
AnalyzeBefore == AnalyzeBeforeOn(EvalsBefore, {NoneStr, OtherMove})

AnalyzeAfter == AnalyzeAfterOn(EvalsAfter)

ReviewNext == Parse \/ AnalyzeBefore \/ AnalyzeAfter

ReviewSpec == ReviewInit /\ [][ReviewNext]_vars

\* ------------------------------------------------ review: graded positions
\* The same review with an analyzer whose centipawn values put the loss of a move on both
\* sides of every threshold of _classify and _score_from_cp_loss: the loss is the value
\* before plus the value after, and the value before is 0 or 1.  The best move it names
\* is the move played.
CpGrid == {-150, 0, 10, 40, 49, 50, 99, 100, 150, 200, 299, 300, 500}
GradedBefore == {[type |-> "cp", value |-> Some(0)], [type |-> "cp", value |-> Some(1)],
                 [type |-> "mate", value |-> Some(1)]}
GradedAfter == {[type |-> "cp", value |-> Some(v)] : v \in CpGrid}
                  \cup {[type |-> "cp", value |-> NoneInt],
                        [type |-> "mate", value |-> Some(-1)]}

GradeBefore == AnalyzeBeforeOn(GradedBefore, {})

GradeAfter == AnalyzeAfterOn(GradedAfter)

GradedNext == Parse \/ GradeBefore \/ GradeAfter

GradedSpec == ReviewInit /\ [][GradedNext]_vars

\* ============================================== two concurrent clock calls
\* ChessClocks holds no lock and Room hands the same ChessClocks to every request of the
\* session, so the statements of two calls interleave.  A position is the line of
\* clocks.py the call executes next; each step below is one statement (an interleaving
\* inside a statement is not modelled).  Both calls read the same instant `now`.
ConcOps == {[op |-> "pause", arg |-> "none"]}
              \cup {[op |-> o, arg |-> a] : o \in {"start", "on_move"}, a \in Sides}

FirstPc(op) ==
    IF op = "start" THEN "L66"
    ELSE IF op \in {"pause", "reset"} THEN "L75"       \* reset calls pause() first (82)
    ELSE IF op = "snapshot" THEN "L116"
    ELSE "L93"

Finished == {"done", "raised"}

\* one statement of the call th on the shared state s at instant t
step(s, th, t) ==
    LET at(pc) == [th EXCEPT !.pc = pc]
        same(pc) == [s |-> s, th |-> at(pc)]
        \* where pause() returns to: its caller reset (82-83), or the end of the call
        after_pause == IF th.op = "reset" THEN "L83" ELSE "done"
    IN
    CASE th.pc = "L66" ->
           [s |-> IF th.arg \in Sides THEN [s EXCEPT !.turn = th.arg] ELSE s, th |-> at("L68")]
      [] th.pc = "L68" -> IF s.flagged # NoSide THEN same("done") ELSE same("L70")
      [] th.pc = "L70" -> IF ~s.running THEN same("L71") ELSE same("done")
      [] th.pc = "L71" -> [s |-> [s EXCEPT !.running = TRUE], th |-> at("L72")]
      [] th.pc = "L72" -> [s |-> [s EXCEPT !.started_at_ms = t], th |-> at("done")]
      [] th.pc = "L75" ->
           IF ~s.running THEN same(after_pause)
           ELSE [s |-> s, th |-> [th EXCEPT !.pc = "L143", !.ret = "L78"]]
      [] th.pc = "L78" -> [s |-> [s EXCEPT !.running = FALSE], th |-> at("L79")]
      [] th.pc = "L79" -> [s |-> [s EXCEPT !.started_at_ms = NoTime], th |-> at(after_pause)]
      [] th.pc = "L83" -> [s |-> [s EXCEPT !.w_ms = s.base_ms], th |-> at("L84")]
      [] th.pc = "L84" -> [s |-> [s EXCEPT !.b_ms = s.base_ms], th |-> at("L85")]
      [] th.pc = "L85" -> [s |-> [s EXCEPT !.flagged = NoSide], th |-> at("L86")]
      [] th.pc = "L86" -> [s |-> [s EXCEPT !.turn = th.arg], th |-> at("done")]
      [] th.pc = "L93" -> IF s.flagged # NoSide THEN same("done") ELSE same("L95")
      [] th.pc = "L95" ->
           IF s.running THEN [s |-> s, th |-> [th EXCEPT !.pc = "L143", !.ret = "L98"]]
           ELSE same("L98")
      [] th.pc = "L98" ->
           [s |-> IF th.arg = "w" /\ s.w_ms > 0 THEN [s EXCEPT !.w_ms = @ + s.inc_ms]
                  ELSE IF th.arg = "b" /\ s.b_ms > 0 THEN [s EXCEPT !.b_ms = @ + s.inc_ms]
                  ELSE s,
            th |-> at("L104")]
      [] th.pc = "L104" ->
           [s |-> [s EXCEPT !.turn = IF th.arg = "w" THEN "b" ELSE "w"], th |-> at("L105")]
      [] th.pc = "L105" -> IF s.flagged = NoSide THEN same("L106") ELSE same("done")
      [] th.pc = "L106" -> [s |-> [s EXCEPT !.started_at_ms = t], th |-> at("L107")]
      [] th.pc = "L107" -> [s |-> [s EXCEPT !.running = TRUE], th |-> at("done")]
      [] th.pc = "L143" ->
           IF ~s.running \/ s.started_at_ms = NoTime \/ s.flagged # NoSide
           THEN same(th.ret) ELSE same("L145")
      [] th.pc = "L145" ->
           \* int - None raises TypeError
           IF s.started_at_ms = NoTime THEN same("raised")
           ELSE [s |-> s, th |-> [th EXCEPT !.pc = "L146", !.elapsed = t - s.started_at_ms]]
      [] th.pc = "L146" ->
           IF s.turn = "w"
           THEN [s |-> [s EXCEPT !.w_ms = @ - th.elapsed], th |-> at("L148")]
           ELSE [s |-> [s EXCEPT !.b_ms = @ - th.elapsed], th |-> at("L153")]
      [] th.pc = "L148" ->
           [s |-> IF s.w_ms <= 0 THEN [s EXCEPT !.w_ms = 0, !.flagged = "w"] ELSE s,
            th |-> at("L156")]
      [] th.pc = "L153" ->
           [s |-> IF s.b_ms <= 0 THEN [s EXCEPT !.b_ms = 0, !.flagged = "b"] ELSE s,
            th |-> at("L156")]
      [] th.pc = "L156" -> [s |-> [s EXCEPT !.started_at_ms = t], th |-> at(th.ret)]
      \* snapshot (110-138): w_ms, b_ms, elapsed and flagged are its local variables
      [] th.pc = "L116" ->
           [s |-> s, th |-> [th EXCEPT !.pc = "L117", !.local.w_ms = s.w_ms,
                                       !.local.b_ms = s.b_ms]]
      [] th.pc = "L117" ->
           IF s.running /\ s.started_at_ms # NoTime /\ s.flagged = NoSide
           THEN same("L118") ELSE same("L123")
      [] th.pc = "L118" ->
           \* int - None raises TypeError
           IF s.started_at_ms = NoTime THEN same("raised")
           ELSE [s |-> s, th |-> [th EXCEPT !.pc = "L119", !.elapsed = t - s.started_at_ms]]
      [] th.pc = "L119" ->
           [s |-> s,
            th |-> IF s.turn = "w"
                   THEN [th EXCEPT !.pc = "L123",
                                   !.local.w_ms = Max0(th.local.w_ms - th.elapsed)]
                   ELSE [th EXCEPT !.pc = "L123",
                                   !.local.b_ms = Max0(th.local.b_ms - th.elapsed)]]
      [] th.pc = "L123" ->
           [s |-> s, th |-> [th EXCEPT !.pc = "L125", !.local.flagged = s.flagged]]
      [] th.pc = "L125" ->
           [s |-> s,
            th |-> [th EXCEPT !.pc = "L130",
                              !.local.flagged =
                                  IF th.local.flagged # NoSide THEN th.local.flagged
                                  ELSE IF th.local.w_ms <= 0 THEN "w"
                                  ELSE IF th.local.b_ms <= 0 THEN "b"
                                  ELSE NoSide]]
      [] th.pc = "L130" ->
           [s |-> s,
            th |-> [th EXCEPT !.pc = "done",
                              !.value = [op |-> "snapshot", base_ms |-> s.base_ms,
                                         inc_ms |-> s.inc_ms, w_ms |-> th.local.w_ms,
                                         b_ms |-> th.local.b_ms, running |-> s.running,
                                         turn |-> s.turn, flagged |-> th.local.flagged]]]

\* the clocks on which the two calls are issued: built, possibly started at instant 0
ConcEntries ==
    {[ClockState(base, inc, turn) EXCEPT !.running = r,
                                         !.started_at_ms = IF r THEN 0 ELSE NoTime]
        : base \in 1..MaxBase, inc \in 0..MaxInc, turn \in Sides, r \in BOOLEAN}

ConcInit ==
    /\ entry \in ConcEntries
    /\ state = entry
    /\ now \in 0..MaxNow
    /\ \E a \in ConcOps, b \in ConcOps :
          threads = [i \in 1..2 |->
                        LET c == IF i = 1 THEN a ELSE b IN
                        [op |-> c.op, arg |-> c.arg, pc |-> FirstPc(c.op), ret |-> "none",
                         elapsed |-> 0, local |-> NoLocals, value |-> NoView]]
    /\ view = NoView /\ call = [op |-> "init", arg |-> "none"] /\ acct = Acct0
    /\ ReviewIdle /\ WebIdle /\ FnIdle

\* the scheduler runs the next statement of one of the two calls
ThreadStep ==
    \E i \in 1..2 :
       /\ threads[i].pc \notin Finished
       /\ LET r == step(state, threads[i], now) IN
             /\ state' = r.s
             /\ threads' = [threads EXCEPT ![i] = r.th]
       /\ UNCHANGED <<now, view, call, acct, entry, rvars, svars, fvars>>

ConcNext == ThreadStep

ConcSpec == ConcInit /\ [][ConcNext]_vars

\* the call c run alone, from entry to return, at instant t
run(c, s, t) ==
    IF c.op = "pause" THEN pause(s, t, t)
    ELSE IF c.op = "start" THEN start(s, c.arg, t)
    ELSE IF c.op = "reset" THEN reset(s, c.arg, t, t)
    ELSE on_move(s, c.arg, t, t, t)

\* ============================================ snapshot beside a mutating call
\* The first call is snapshot(), the second one a call that assigns to the fields of the
\* ClockState in place.  (configure is not among them: it replaces the ClockState object,
\* and a snapshot that bound the old object at line 115 sees of configure only its
\* pause().)
SnapOps == {[op |-> "pause", arg |-> "none"]}
              \cup {[op |-> o, arg |-> a] : o \in {"start", "on_move"}, a \in Sides}
              \cup {[op |-> "reset", arg |-> a] : a \in Tokens}

SnapInit ==
    /\ entry \in ConcEntries
    /\ state = entry
    /\ now \in 0..MaxNow
    /\ \E c \in SnapOps :
          threads = [i \in 1..2 |->
                        IF i = 1
                        THEN [NoThread EXCEPT !.op = "snapshot", !.pc = FirstPc("snapshot")]
                        ELSE [NoThread EXCEPT !.op = c.op, !.arg = c.arg,
                                              !.pc = FirstPc(c.op)]]
    /\ view = NoView /\ call = [op |-> "init", arg |-> "none"] /\ acct = Acct0
    /\ ReviewIdle /\ WebIdle /\ FnIdle

SnapNext == ThreadStep

SnapSpec == SnapInit /\ [][SnapNext]_vars

\* ================================================== single-game web server
\* ui_web/app.py keeps one ChessGame and one Clocks (its own class, not ChessClocks) as
\* module globals.  Time is `now` in milliseconds; Clocks keeps time.time() in last_ts and
\* charges int((now - last_ts) * 1000) ms.  A request's reads of the clock are one instant.

\* The board, as far as the moves the requests below submit can take it: the two Fool's
\* Mate lines 1. f3 e5 2. g4 Qh4# and 1. g4 e5 2. f3 Qh4#.  "e2e5" parses and is legal in
\* none of these positions; "zz" does not parse.
MoveTokens == {"f2f3", "g2g4", "e7e5", "d8h4", "e2e5", "zz"}

Played(stack) == {stack[i] : i \in 1..Len(stack)}

\* board.is_game_over(): Qh4 mates
is_game_over(stack) == Len(stack) = 4

\* board.legal_moves, among MoveTokens
legal_moves(stack) ==
    IF Len(stack) = 4 THEN {}
    ELSE IF Len(stack) % 2 = 0 THEN {"f2f3", "g2g4"} \ Played(stack)
    ELSE IF Len(stack) = 1 THEN {"e7e5"}
    ELSE {"d8h4"}

\* ChessGame.is_move_legal: Move.from_uci raises ValueError on "zz"
is_move_legal(stack, move_uci) ==
    IF move_uci = "zz" THEN FALSE ELSE move_uci \in legal_moves(stack)

\* ChessGame.push_move: the value returned and the move stack afterwards
push_move(stack, move_uci) ==
    IF is_game_over(stack) THEN [ok |-> FALSE, stack |-> stack]
    ELSE IF is_move_legal(stack, move_uci) THEN [ok |-> TRUE, stack |-> Append(stack, move_uci)]
    ELSE [ok |-> FALSE, stack |-> stack]

MinuteMs == 60 * 1000
DefaultMinutes == 5

\* Clocks(): the dataclass defaults
Clocks0 ==
    [w_ms |-> DefaultMinutes * MinuteMs, b_ms |-> DefaultMinutes * MinuteMs, increment |-> 0,
     running |-> FALSE, turn |-> "w", last_ts |-> NoTime, flagged |-> FALSE]

Clocks_start(c, t) ==
    IF c.flagged THEN c
    ELSE IF ~c.running THEN [c EXCEPT !.running = TRUE, !.last_ts = t]
    ELSE c

Clocks_check_flagged(c) ==
    IF c.w_ms <= 0 \/ c.b_ms <= 0 THEN [c EXCEPT !.flagged = TRUE] ELSE c

Clocks_pause(c, t) ==
    IF c.running /\ c.last_ts # NoTime
    THEN LET elapsed == t - c.last_ts
             c1 == IF c.turn = "w" THEN [c EXCEPT !.w_ms = Max0(@ - elapsed)]
                   ELSE [c EXCEPT !.b_ms = Max0(@ - elapsed)]
         IN  Clocks_check_flagged([c1 EXCEPT !.running = FALSE, !.last_ts = NoTime])
    ELSE c

Clocks_switch_turn(c, t) ==
    LET c1 == IF c.running /\ c.last_ts # NoTime
              THEN LET elapsed == t - c.last_ts IN
                   IF c.turn = "w"
                   THEN LET w == Max0(c.w_ms - elapsed) IN
                        [c EXCEPT !.w_ms = w, !.flagged = IF w = 0 THEN TRUE ELSE @]
                   ELSE LET b == Max0(c.b_ms - elapsed) IN
                        [c EXCEPT !.b_ms = b, !.flagged = IF b = 0 THEN TRUE ELSE @]
              ELSE c
        c2 == IF c1.turn = "w"
              THEN [c1 EXCEPT !.w_ms = @ + c1.increment, !.turn = "b"]
              ELSE [c1 EXCEPT !.b_ms = @ + c1.increment, !.turn = "w"]
    IN  IF ~c2.flagged THEN [c2 EXCEPT !.last_ts = t, !.running = TRUE] ELSE c2

Clocks_config(c, minutes, increment, turn) ==
    [w_ms |-> minutes * MinuteMs, b_ms |-> minutes * MinuteMs,
     increment |-> increment * 1000, running |-> FALSE,
     turn |-> IF turn # "b" THEN "w" ELSE "b", last_ts |-> NoTime, flagged |-> FALSE]

\* Variant of the /move route with a plausible slip: the clock is switched before the
\* result of push_move is looked at.
move_route_switch_first(g, c, uci, t) ==
    IF c.flagged THEN [game |-> g, clocks |-> c, success |-> FALSE]
    ELSE LET p == push_move(g, uci)
             c1 == Clocks_switch_turn(c, t)
         IN  IF ~p.ok THEN [game |-> p.stack, clocks |-> c1, success |-> FALSE]
             ELSE [game |-> p.stack,
                   clocks |-> IF is_game_over(p.stack) THEN Clocks_pause(c1, t) ELSE c1,
                   success |-> TRUE]

\* the /move route (lines 198-253) without a promotion letter: the game, the clocks and
\* the "success" of the response
move_route(g, c, uci, t) ==
    IF c.flagged THEN [game |-> g, clocks |-> c, success |-> FALSE]
    ELSE LET p == push_move(g, uci) IN
         IF ~p.ok THEN [game |-> p.stack, clocks |-> c, success |-> FALSE]
         ELSE LET c1 == Clocks_switch_turn(c, t) IN
              [game |-> p.stack,
               clocks |-> IF is_game_over(p.stack) THEN Clocks_pause(c1, t) ELSE c1,
               success |-> TRUE]

\* what play_fen can answer on the position g: no move (no engine, an engine error, a
\* game that is over, a move that fails the legality guard at lines 213-218), or a legal
\* move and the position after it
EngineMoves == MoveTokens \cup {NoneStr}

play_fen(g, e) ==
    IF e = NoneStr \/ e \notin legal_moves(g) THEN [ok |-> FALSE, move |-> NoneStr, fen |-> g]
    ELSE [ok |-> TRUE, move |-> e, fen |-> Append(g, e)]

\* the /ai/play route (lines 386-417) when play_fen answers e.  The board position is
\* identified by the moves that led to it: board.set_fen(new_fen) puts the position after
\* the engine's move on the board (it also empties board.move_stack, which none of the
\* routes here reads).
ai_play_route(g, c, e, t) ==
    LET res == play_fen(g, e) IN
    IF ~res.ok THEN [game |-> g, clocks |-> c, success |-> FALSE]
    ELSE LET c1 == Clocks_switch_turn(c, t) IN
         [game |-> res.fen,
          clocks |-> IF is_game_over(res.fen) THEN Clocks_pause(c1, t) ELSE c1,
          success |-> TRUE]

WebInit ==
    /\ game = <<>> /\ clocks = Clocks0 /\ resp = NoResp
    /\ ClockIdle /\ ReviewIdle /\ ThreadsIdle /\ FnIdle

\* a minute passes between two requests
WebTick ==
    /\ now + MinuteMs <= MaxNow * MinuteMs
    /\ now' = now + MinuteMs
    /\ resp' = NoResp
    /\ UNCHANGED <<game, clocks, state, view, call, acct, rvars, kvars, fvars>>

Move ==
    \E uci \in MoveTokens :
       LET r == move_route(game, clocks, uci, now) IN
          /\ game' = r.game
          /\ clocks' = r.clocks
          /\ resp' = [op |-> "move", uci |-> uci, success |-> r.success]
          /\ UNCHANGED <<cvars, rvars, kvars, fvars>>

AiPlay ==
    \E e \in EngineMoves :
       LET r == ai_play_route(game, clocks, e, now) IN
          /\ game' = r.game
          /\ clocks' = r.clocks
          /\ resp' = [op |-> "ai_play", uci |-> e, success |-> r.success]
          /\ UNCHANGED <<cvars, rvars, kvars, fvars>>

WebReset ==
    /\ game' = <<>>
    /\ clocks' = Clocks0
    /\ resp' = [op |-> "reset", uci |-> "none", success |-> TRUE]
    /\ UNCHANGED <<cvars, rvars, kvars, fvars>>

ClockConfig ==
    \E minutes \in 0..MaxBase, increment \in 0..MaxInc, turn \in Tokens :
       /\ clocks' = Clocks_config(clocks, minutes, increment, turn)
       /\ resp' = [op |-> "clock_config", uci |-> "none", success |-> TRUE]
       /\ UNCHANGED <<game, cvars, rvars, kvars, fvars>>

ClockStart ==
    /\ clocks' = Clocks_start(clocks, now)
    /\ resp' = [op |-> "clock_start", uci |-> "none", success |-> TRUE]
    /\ UNCHANGED <<game, cvars, rvars, kvars, fvars>>

ClockPause ==
    /\ clocks' = Clocks_pause(clocks, now)
    /\ resp' = [op |-> "clock_pause", uci |-> "none", success |-> TRUE]
    /\ UNCHANGED <<game, cvars, rvars, kvars, fvars>>

WebNext == WebTick \/ Move \/ WebReset \/ ClockConfig \/ ClockStart \/ ClockPause

WebSpec == WebInit /\ [][WebNext]_vars

\* the same server with the engine route /ai/play beside the player's /move
WebAiNext ==
    WebTick \/ Move \/ AiPlay \/ WebReset \/ ClockConfig \/ ClockStart \/ ClockPause

WebAiSpec == WebInit /\ [][WebAiNext]_vars

\* ========================================================= engine adapter
\* find_engine_path and probe_engine against an environment: `present` are the files that
\* exist, `env_path` the value of STOCKFISH_PATH, `project` the first engine binary found
\* under the project's engines/, engine/ and bin/ directories, `which` the answer of
\* shutil.which("stockfish"), `launch` what starting the engine at the path found does.
Truthy(x) == x # NoneStr /\ x # ""

MissingPath == "Z:/nope/nowhere/stockfish.exe"    \* tests/test_engine_probe.py
Preferreds == {NoneStr, "", MissingPath, "/opt/stockfish"}
Files == {"/opt/stockfish", "/env/stockfish"}

\* Path(p).exists(): Path("") is the current directory
Exists(p, env) == IF p = "" THEN TRUE ELSE p \in env.present

Launches ==
    {[ok |-> TRUE, name |-> n, version |-> v, error |-> NoneStr]
        : n \in {NoneStr, "Stockfish 16"}, v \in {NoneStr, "16"}}
      \cup {[ok |-> FALSE, name |-> NoneStr, version |-> NoneStr, error |-> e]
              : e \in {"", "engine process died unexpectedly"}}

Environments ==
    [present : SUBSET Files, env_path : {NoneStr, "", "/env/stockfish"},
     project : {NoneStr, "engines/stockfish.exe"}, which : {NoneStr, "/usr/bin/stockfish"},
     launch : Launches]

\* Variant of find_engine_path with a plausible slip: strict is not honoured, so a missing
\* preferred path falls through to the other places.
find_engine_path_lenient(preferred, strict, env) ==
    IF Truthy(preferred) /\ Exists(preferred, env)
    THEN [path |-> preferred, looked |-> {"preferred"}]
    ELSE LET pre == IF Truthy(preferred) THEN {"preferred"} ELSE {} IN
         IF Truthy(env.env_path) /\ Exists(env.env_path, env)
         THEN [path |-> env.env_path, looked |-> pre \cup {"env"}]
         ELSE IF env.project # NoneStr
         THEN [path |-> env.project, looked |-> pre \cup {"env", "project"}]
         ELSE IF Truthy(env.which)
         THEN [path |-> env.which, looked |-> pre \cup {"env", "project", "PATH"}]
         ELSE [path |-> NoneStr, looked |-> pre \cup {"env", "project", "PATH"}]

\* find_engine_path: the path returned (or None) and the places it looked in
find_engine_path(preferred, strict, env) ==
    IF Truthy(preferred) /\ Exists(preferred, env)
    THEN [path |-> preferred, looked |-> {"preferred"}]
    ELSE IF Truthy(preferred) /\ strict
    THEN [path |-> NoneStr, looked |-> {"preferred"}]
    ELSE LET pre == IF Truthy(preferred) THEN {"preferred"} ELSE {} IN
         IF Truthy(env.env_path) /\ Exists(env.env_path, env)
         THEN [path |-> env.env_path, looked |-> pre \cup {"env"}]
         ELSE IF env.project # NoneStr
         THEN [path |-> env.project, looked |-> pre \cup {"env", "project"}]
         ELSE IF Truthy(env.which)
         THEN [path |-> env.which, looked |-> pre \cup {"env", "project", "PATH"}]
         ELSE [path |-> NoneStr, looked |-> pre \cup {"env", "project", "PATH"}]

\* f"{info.get('name', 'Stockfish')} {info.get('version', '')}".strip()
version_string(l) ==
    IF l.name # NoneStr
    THEN (IF l.version # NoneStr THEN "Stockfish 16 16" ELSE "Stockfish 16")
    ELSE (IF l.version # NoneStr THEN "Stockfish 16" ELSE "Stockfish")

\* probe_engine: the dict returned and the places looked in
probe_engine(preferred, env) ==
    LET f == find_engine_path(preferred, Truthy(preferred), env) IN
    IF ~Truthy(f.path)
    THEN [returned |-> TRUE, looked |-> f.looked,
          value |-> [available |-> FALSE, path |-> NoneStr, version |-> NoneStr,
                     error |-> "Stockfish not found"]]
    ELSE IF env.launch.ok
    THEN [returned |-> TRUE, looked |-> f.looked,
          value |-> [available |-> TRUE, path |-> f.path,
                     version |-> version_string(env.launch), error |-> NoneStr]]
    ELSE [returned |-> TRUE, looked |-> f.looked,
          value |-> [available |-> FALSE, path |-> f.path, version |-> NoneStr,
                     error |-> env.launch.error]]

ProbeCalls ==
    {[fn |-> "probe_engine", preferred |-> p, env |-> e] : p \in Preferreds, e \in Environments}

\* ------------------------------------------- principal variation to SAN
MaxPv == 3          \* a principal variation has 0..MaxPv moves

\* the positions of the two Fool's Mate lines, as move stacks
Positions ==
    {s \in UNION {[1..n -> MoveTokens] : n \in 0..4} :
        \A k \in 1..Len(s) : s[k] \in legal_moves(SubSeq(s, 1, k - 1))}

\* board.san(move) of a legal move
san(stack, move) ==
    IF move = "f2f3" THEN "f3"
    ELSE IF move = "g2g4" THEN "g4"
    ELSE IF move = "e7e5" THEN "e5"
    ELSE "Qh4#"

\* the loop of _pv_to_san_safe (lines 18-28) on the rest of the PV
RECURSIVE pv_loop(_, _, _)
pv_loop(tmp, pv_moves, san_list) ==
    IF pv_moves = <<>> THEN [san_list |-> san_list, tmp |-> tmp]
    ELSE LET mv == pv_moves[1] IN
         IF mv = "zz" THEN [san_list |-> san_list, tmp |-> tmp]           \* from_uci raises
         ELSE IF mv \notin legal_moves(tmp) THEN [san_list |-> san_list, tmp |-> tmp]
         ELSE pv_loop(Append(tmp, mv), Tail(pv_moves), Append(san_list, san(tmp, mv)))

\* Variant of _pv_to_san_safe with a plausible slip: the moves are pushed on the caller's
\* board instead of a copy.
pv_to_san_on_board(b, pv_moves) ==
    LET r == pv_loop(b, pv_moves, <<>>) IN
    [returned |-> TRUE, value |-> r.san_list, board |-> r.tmp]

\* _pv_to_san_safe: the list returned and the caller's board afterwards
pv_to_san_safe(b, pv_moves) ==
    LET r == pv_loop(b, pv_moves, <<>>) IN
    [returned |-> TRUE, value |-> r.san_list, board |-> b]

PvCalls ==
    {[fn |-> "_pv_to_san_safe", board |-> b, pv_moves |-> pv]
        : b \in Positions, pv \in UNION {[1..n -> MoveTokens] : n \in 0..MaxPv}}

\* -------------------------------------------------- adapter specification
AdapterInit ==
    /\ fn_in \in ProbeCalls \cup PvCalls
    /\ fn_out = NoReturn
    /\ ClockIdle /\ ReviewIdle /\ ThreadsIdle /\ WebIdle

Probe ==
    /\ fn_in.fn = "probe_engine" /\ ~fn_out.returned
    /\ fn_out' = probe_engine(fn_in.preferred, fn_in.env)
    /\ UNCHANGED <<fn_in, cvars, rvars, kvars, svars>>

PvToSan ==
    /\ fn_in.fn = "_pv_to_san_safe" /\ ~fn_out.returned
    /\ fn_out' = pv_to_san_safe(fn_in.board, fn_in.pv_moves)
    /\ UNCHANGED <<fn_in, cvars, rvars, kvars, svars>>

AdapterNext == Probe \/ PvToSan

AdapterSpec == AdapterInit /\ [][AdapterNext]_vars

\* ================================================================ claims
Opp(side) == IF side = "w" THEN "b" ELSE "w"
Ms(s, side) == IF side = "w" THEN s.w_ms ELSE s.b_ms
\* the side _apply_elapsed charges: white when turn = "w", black otherwise
ChargedSide(s) == IF s.turn = "w" THEN "w" ELSE "b"
Mutators == {"configure", "start", "pause", "reset", "on_move"}

\* C1: with base_ms >= 0, inc_ms >= 0 and a non-decreasing time source, both stored
\* remaining times are >= 0 after every call sequence, and so are the two times of every
\* snapshot(): the one just returned and the one a call at the present instant would return.
C1_RemainingNeverNegative ==
    /\ state.w_ms >= 0 /\ state.b_ms >= 0
    /\ snapshot(state, now).w_ms >= 0 /\ snapshot(state, now).b_ms >= 0
    /\ view # NoView => view.w_ms >= 0 /\ view.b_ms >= 0

\* a pause committed a running interval longer than what the side had left
C1_Witness ==
    /\ call.op = "pause" /\ ~acct.moved /\ ~acct.switched
    /\ state.base_ms > 0 /\ acct.ran > state.base_ms
    /\ state.flagged = ChargedSide(state) /\ Ms(state, state.flagged) = 0

\* C2: once the stored flagged field is set, start, pause, on_move and snapshot keep its
\* value (only reset and configure clear it).
C2_FlaggedIsTerminal ==
    [][(state.flagged # NoSide /\ call'.op \in {"start", "pause", "on_move", "snapshot"})
          => state'.flagged = state.flagged]_vars

\* on_move was called on a clock that a pause had flagged earlier
C2_Witness ==
    call.op = "on_move" /\ state.flagged # NoSide /\ ~state.running

\* C3: once the stored flagged field is set, on_move and start (any argument, any later
\* time) leave w_ms and b_ms unchanged.
C3_FlaggedFreezesTimes ==
    [][(state.flagged # NoSide /\ call'.op \in {"on_move", "start"})
          => (state'.w_ms = state.w_ms /\ state'.b_ms = state.b_ms)]_vars

\* on_move by the side that still has time, with an increment to credit, on a flagged clock
C3_Witness ==
    /\ call.op = "on_move" /\ state.flagged # NoSide /\ ~state.running
    /\ call.arg = Opp(state.flagged) /\ Ms(state, call.arg) > 0 /\ state.inc_ms > 0

\* C4: between calls, started_at_ms is present iff running is true.
C4_StartedIffRunning ==
    (state.started_at_ms # NoTime) <=> state.running

\* an on_move whose commit flagged the mover: the clock stays running with a timestamp
C4_Witness ==
    call.op = "on_move" /\ state.flagged # NoSide /\ state.running
        /\ state.started_at_ms # NoTime

\* C5 as stated: on an unflagged clock, an on_move(s) by a valid side that does not flag
\* leaves the active side different from the one before the call, and equal to the
\* opponent of s.
C5_Original ==
    [][(call'.op = "on_move" /\ call'.arg \in Sides
          /\ state.flagged = NoSide /\ state'.flagged = NoSide)
          => (state'.turn # state.turn /\ state'.turn = Opp(call'.arg))]_vars

\* C5 amended: on an unflagged clock, an on_move(s) by a valid side that does not flag
\* leaves the active side equal to the opponent of s; it differs from the active side
\* before the call when s was the active side before the call.
C5_TurnIsOpponentOfMover ==
    [][(call'.op = "on_move" /\ call'.arg \in Sides
          /\ state.flagged = NoSide /\ state'.flagged = NoSide)
          => (/\ state'.turn = Opp(call'.arg)
              /\ state.turn = call'.arg => state'.turn # state.turn)]_vars

C5_Witness ==
    /\ call.op = "on_move" /\ call.arg = "w" /\ state.flagged = NoSide
    /\ state.turn = "b" /\ state.running

\* C6: on_move(s) on a running, unflagged clock whose active side is s, entered e ms
\* after the run started with e < remaining[s]: remaining[s] becomes old - e + inc_ms,
\* the opponent's time is unchanged, the active side is the opponent, running is true.
\* Instance: base 300000, increment 0, white runs 12000 ms: white 288000, turn black.
C6_Step ==
    \A side \in Sides :
       (/\ call'.op = "on_move" /\ call'.arg = side
        /\ state.running /\ state.flagged = NoSide /\ state.turn = side
        /\ state.started_at_ms # NoTime
        /\ now - state.started_at_ms < Ms(state, side))
       => (/\ Ms(state', side) = Ms(state, side) - (now - state.started_at_ms) + state.inc_ms
           /\ Ms(state', Opp(side)) = Ms(state, Opp(side))
           /\ state'.turn = Opp(side)
           /\ state'.running)

C6_Instance ==
    LET s0 == start(ClockState(300000, 0, "w"), "w", 0)
        s1 == on_move(s0, "w", 12000, 12000, 12000)
    IN  s1.w_ms = 288000 /\ s1.b_ms = 300000 /\ s1.turn = "b" /\ s1.running

C6_OnMoveAccounting == [][C6_Step]_vars /\ []C6_Instance

\* white moved after running 2 of its 3 ms, with increment 1: 3 - 2 + 1 = 2
C6_Witness ==
    /\ call.op = "on_move" /\ call.arg = "w" /\ state.turn = "b" /\ state.running
    /\ state.flagged = NoSide /\ state.base_ms = 3 /\ state.inc_ms = 1
    /\ state.w_ms = 2 /\ state.b_ms = 3 /\ acct.ran >= 2

\* C7: over start/pause sequences with no on_move and no flag, what has been subtracted
\* from the remaining times equals the wall-clock time of the running intervals up to
\* the last commit, and as long as no start(side) changed the active side all of it was
\* subtracted from the active side.
C7_Committed == (state.base_ms - state.w_ms) + (state.base_ms - state.b_ms)
C7_Live == IF state.running THEN now - state.started_at_ms ELSE 0

C7_PauseStartAccounting ==
    (~acct.moved /\ state.flagged = NoSide) =>
       /\ C7_Committed + C7_Live = acct.ran
       /\ ~acct.switched =>
             /\ Ms(state, ChargedSide(state)) = state.base_ms - (acct.ran - C7_Live)
             /\ Ms(state, Opp(ChargedSide(state))) = state.base_ms

\* a pause after 2 ms of running, no move, no flag
C7_Witness ==
    /\ call.op = "pause" /\ ~acct.moved /\ ~acct.switched /\ state.flagged = NoSide
    /\ acct.ran = 2 /\ Ms(state, ChargedSide(state)) = state.base_ms - 2

\* C8: snapshot() leaves the stored state unchanged; two snapshot() calls at one instant
\* return the same value; a pause() after a snapshot() stores what it would have stored
\* without it.
C8_Step ==
    /\ call'.op = "snapshot" =>
          /\ state' = state
          /\ \A d \in 0..MaxDrift : pause(state', now', now' + d) = pause(state, now, now + d)
    /\ (call.op = "snapshot" /\ call'.op = "snapshot" /\ now' = now) => view' = view

C8_SnapshotIsPure == [][C8_Step]_vars

\* a snapshot of a running clock whose live view differs from the stored time
C8_Witness ==
    /\ call.op = "snapshot" /\ state.running /\ state.flagged = NoSide
    /\ view.w_ms < state.w_ms /\ view.w_ms > 0

\* C9 as stated: right after any mutating call returns, a snapshot() taken at that
\* instant reports the stored flagged field.
C9_Original ==
    call.op \in Mutators => snapshot(state, now).flagged = state.flagged

\* C9 amended: with base_ms > 0, right after pause, reset, configure or on_move returns,
\* or after a start that leaves the clock stopped or started at this instant, a
\* snapshot() taken at that instant reports the stored flagged field.
C9_ViewFlagAgreesAfterCommit ==
    (/\ state.base_ms > 0
     /\ call.op \in Mutators
     /\ call.op = "start" => (state.running => state.started_at_ms = now))
    => snapshot(state, now).flagged = state.flagged

\* a pause latched the flag, and the view reports the same side
C9_Witness ==
    /\ call.op = "pause" /\ state.base_ms > 0 /\ state.flagged # NoSide
    /\ snapshot(state, now).flagged = state.flagged

\* C10: review_pgn returns either a fully populated summary (ok, one MoveReview per ply
\* of the input in order, no error) or a fully empty one (not ok, no moves, no accuracy,
\* a non-empty error string); when any analyzer call failed it returns the empty one, so
\* the MoveReviews of earlier plies are not returned.
C10_Populated ==
    /\ result.ok /\ pgn.parsed
    /\ Len(result.moves) = pgn.plies
    /\ \A i \in 1..Len(result.moves) :
          result.moves[i].ply = i /\ result.moves[i].move_uci = Mainline[i]
    /\ result.error = NoneStr

C10_Empty ==
    /\ ~result.ok
    /\ result.moves = <<>>
    /\ ~result.accuracy_percent.some
    /\ result.error \notin {NoneStr, ""}

C10_AllOrNothing ==
    /\ rpc # "returned" => result = NoResult
    /\ rpc = "returned" =>
          /\ C10_Populated \/ C10_Empty
          /\ (\E i \in 1..Len(calls) : ~calls[i].ok) => C10_Empty

\* the analyzer failed on the second ply, with no error text, after the first ply's
\* MoveReview had been computed
C10_Witness ==
    /\ rpc = "returned" /\ Len(moves_data) = 1 /\ Len(calls) >= 3
    /\ ~calls[Len(calls)].ok
    /\ result.error = "Engine unavailable" /\ result.moves = <<>>

\* C11: the review of a game record that parses and has no move returns ok = true, an
\* empty move list, no accuracy (absent, not 0) and a count of 0 for each of the six
\* verdicts, and has called the analyzer not once.
C11_EmptyReview ==
    (rpc = "returned" /\ pgn.parsed /\ pgn.plies = 0) =>
        /\ result.ok
        /\ result.moves = <<>>
        /\ result.accuracy_percent = NoneInt
        /\ DOMAIN result.counts = Verdicts
        /\ \A v \in Verdicts : result.counts[v] = 0
        /\ calls = <<>>

C11_Witness ==
    rpc = "returned" /\ pgn.parsed /\ pgn.plies = 0 /\ result.ok /\ calls = <<>>

\* an evaluation that is a plain centipawn number; a mate marker
PlainCp(e) == e.type = "cp" /\ e.value.some
IsMate(e) == e.type = "mate"

\* C12: for every ply reviewed, cp_loss is the centipawn value before the move plus the
\* centipawn value after it (each from the side then to move) when both evaluations are
\* plain centipawn numbers, and is absent when either is a mate marker or has no number.
C12_CpLoss ==
    \A i \in 1..Len(moves_data) :
       LET m == moves_data[i] IN
       m.cp_loss = IF PlainCp(m.eval_before) /\ PlainCp(m.eval_after)
                   THEN Some(m.eval_before.value.v + m.eval_after.value.v)
                   ELSE NoneInt

C12_Witness ==
    /\ rpc = "returned" /\ result.ok /\ Len(result.moves) = 2
    /\ result.moves[1].eval_before.value = Some(1)
    /\ result.moves[1].eval_after.value = Some(49)
    /\ result.moves[1].cp_loss = Some(50)
    /\ IsMate(result.moves[2].eval_after) /\ PlainCp(result.moves[2].eval_before)
    /\ result.moves[2].cp_loss = NoneInt

\* the review of two plies in which the analyzer gave 0 before each move and, from the
\* side to move after it, 40 after the first and 150 after the second (-40 and -150 for
\* the mover)
C13_Scenario ==
    /\ rpc = "returned" /\ result.ok /\ Len(result.moves) = 2
    /\ \A i \in 1..2 : result.moves[i].eval_before = [type |-> "cp", value |-> Some(0)]
    /\ result.moves[1].eval_after = [type |-> "cp", value |-> Some(40)]
    /\ result.moves[2].eval_after = [type |-> "cp", value |-> Some(150)]

\* C13: the verdict of every ply is Mate when the evaluation before or after the move is a
\* mate marker; otherwise Good when cp_loss is absent; otherwise Blunder for
\* |cp_loss| >= 300, Mistake for >= 100, Inaccuracy for >= 50 and Good below.  In the
\* scenario above the verdicts are Good and Mistake and the counts are one Good, one
\* Mistake and nothing else.
C13_VerdictLadder ==
    /\ \A i \in 1..Len(moves_data) :
          LET m == moves_data[i] IN
          m.verdict =
             IF IsMate(m.eval_before) \/ IsMate(m.eval_after) THEN "Mate"
             ELSE IF ~m.cp_loss.some THEN "Good"
             ELSE IF Abs(m.cp_loss.v) >= 300 THEN "Blunder"
             ELSE IF Abs(m.cp_loss.v) >= 100 THEN "Mistake"
             ELSE IF Abs(m.cp_loss.v) >= 50 THEN "Inaccuracy"
             ELSE "Good"
    /\ C13_Scenario =>
          /\ result.moves[1].verdict = "Good" /\ result.moves[2].verdict = "Mistake"
          /\ result.counts = [v \in Verdicts |->
                                 IF v \in {"Good", "Mistake"} THEN 1 ELSE 0]

C13_Witness ==
    /\ C13_Scenario
    /\ result.moves[1].cp_loss = Some(40) /\ result.moves[2].cp_loss = Some(150)

\* C14: in the counts of a successful review a ply is counted under Mate when its verdict
\* is Mate, whatever its loss and move; otherwise under Best when cp_loss is present,
\* |cp_loss| <= 10 and the move played is the best move named before it; otherwise under
\* its own verdict.  Each ply is counted once.
C14_Counts ==
    (rpc = "returned" /\ result.ok) =>
       LET md == result.moves
           counted(i) ==
              IF md[i].verdict = "Mate" THEN "Mate"
              ELSE IF /\ md[i].cp_loss.some
                      /\ md[i].cp_loss.v <= 10 /\ md[i].cp_loss.v >= -10
                      /\ md[i].move_uci = md[i].bestmove_uci
                   THEN "Best"
              ELSE md[i].verdict
       IN  /\ DOMAIN result.counts = Verdicts
           /\ \A v \in Verdicts :
                 result.counts[v] = Cardinality({i \in 1..Len(md) : counted(i) = v})

\* a mate ply that played the best move counted under Mate, a ply 10 centipawns off that
\* played the best move counted under Best
C14_Witness ==
    /\ rpc = "returned" /\ result.ok /\ Len(result.moves) = 2
    /\ result.moves[1].verdict = "Mate"
    /\ result.moves[1].move_uci = result.moves[1].bestmove_uci
    /\ result.moves[2].cp_loss = Some(10)
    /\ result.moves[2].move_uci = result.moves[2].bestmove_uci
    /\ result.counts["Mate"] = 1 /\ result.counts["Best"] = 1 /\ result.counts["Good"] = 0

\* a successful review of a single ply that lost nothing and played the best move named
\* before it
C15_SingleBestPly ==
    /\ rpc = "returned" /\ result.ok /\ Len(result.moves) = 1
    /\ result.moves[1].cp_loss = Some(0)
    /\ result.moves[1].move_uci = result.moves[1].bestmove_uci

\* C15: a review of a single ply with cp_loss = 0 whose move is the best move named before
\* it records the verdict Best for the ply and has accuracy 100.0.
C15_BestVerdict ==
    C15_SingleBestPly =>
       /\ result.moves[1].verdict = "Best"
       /\ result.accuracy_percent = Some(1000)

\* the per-ply score of C16, in thousandths
C16_Score(cp_loss) ==
    IF ~cp_loss.some THEN 900
    ELSE IF Abs(cp_loss.v) = 0 THEN 1000
    ELSE IF Abs(cp_loss.v) <= 50 THEN 900
    ELSE IF Abs(cp_loss.v) <= 100 THEN 800
    ELSE IF Abs(cp_loss.v) <= 200 THEN 650
    ELSE IF Abs(cp_loss.v) <= 300 THEN 500
    ELSE IF Abs(cp_loss.v) <= 500 THEN 300
    ELSE 200

RECURSIVE C16_Sum(_)
C16_Sum(md) == IF md = <<>> THEN 0 ELSE C16_Score(md[1].cp_loss) + C16_Sum(Tail(md))

\* the losses the graded analyzer can produce
GradedLosses == {b + a : b \in {0, 1}, a \in CpGrid}

SideOps == {"configure", "start", "reset", "on_move"}

\* C17: a call of configure, start, reset or on_move on a clock whose active side is valid
\* leaves the active side valid, and a start or on_move given a token other than "w" and
\* "b" leaves the active side as it was.
C17_InvalidSideIgnored ==
    [][(call'.op \in SideOps /\ state.turn \in Sides) =>
          /\ state'.turn \in Sides
          /\ (call'.op \in {"start", "on_move"} /\ call'.arg \notin Sides)
                => state'.turn = state.turn]_vars

\* C19: configure(base, inc, side) leaves both remaining times equal to base, flagged
\* absent, base_ms and inc_ms at the new values, and running with the truth value it had
\* before the call: a clock that was running runs again, started at the end of the call; a
\* stopped clock stays stopped, with no start time.
C19_Configure ==
    [][call'.op = "configure" =>
          /\ state'.w_ms = call'.base_ms /\ state'.b_ms = call'.base_ms
          /\ state'.base_ms = call'.base_ms /\ state'.inc_ms = call'.inc_ms
          /\ state'.flagged = NoSide
          /\ state'.running = state.running
          /\ state'.started_at_ms = IF state.running THEN now' ELSE NoTime]_vars

\* a configure just returned on a clock that ran and had been charged: it runs again with
\* full times from this instant
C19_Witness ==
    /\ call.op = "configure" /\ call.base_ms = 2 /\ call.inc_ms = 1
    /\ state.running /\ state.started_at_ms = now /\ now >= 2
    /\ state.w_ms = 2 /\ state.b_ms = 2 /\ state.flagged = NoSide

\* the two calls have returned (or raised)
BothFinished == \A i \in 1..2 : threads[i].pc \in Finished

\* C18: when two calls among on_move, pause and start are made concurrently on one clock,
\* the stored state after both have returned is the state produced by running the two
\* calls one after the other in one of the two orders (so no interval is subtracted twice
\* and no increment is credited twice for one move).
C18_Serializable ==
    BothFinished =>
       state \in {run(threads[2], run(threads[1], entry, now), now),
                  run(threads[1], run(threads[2], entry, now), now)}

\* C20: a /move request whose move the rules reject (not legal in the position, not
\* parsable, or made after the game is over) is answered with success = false and changes
\* neither the move stack nor any field of the clocks; a /move request changes the clocks
\* only when its move was legal in the position and has been pushed.
C20_RejectedMoveMutatesNothing ==
    [][resp'.op = "move" =>
          LET rejected == \/ is_game_over(game)
                          \/ resp'.uci = "zz"
                          \/ resp'.uci \notin legal_moves(game)
          IN  /\ rejected => (~resp'.success /\ game' = game /\ clocks' = clocks)
              /\ clocks' # clocks =>
                    (~rejected /\ resp'.success /\ game' = Append(game, resp'.uci))]_vars

\* an illegal move has just been refused while Black's clock, started a minute ago by
\* White's accepted move, runs on untouched
C20_Witness ==
    /\ resp = [op |-> "move", uci |-> "e2e5", success |-> FALSE]
    /\ game = <<"f2f3">>
    /\ clocks.running /\ clocks.turn = "b" /\ ~clocks.flagged
    /\ clocks.last_ts # NoTime /\ now = clocks.last_ts + MinuteMs
    /\ clocks.b_ms = DefaultMinutes * MinuteMs

\* C21: probe_engine given a preferred path that does not exist returns a record with
\* exactly the keys available, path, version and error, with available false, having
\* looked nowhere but at the preferred path (not at STOCKFISH_PATH, the project
\* directories or PATH), whatever those places hold; and every probe_engine call returns.
C21_ProbeMissingPreferred ==
    /\ (fn_in.fn = "probe_engine" /\ fn_out.returned
          /\ Truthy(fn_in.preferred) /\ ~Exists(fn_in.preferred, fn_in.env)) =>
          /\ DOMAIN fn_out.value = {"available", "path", "version", "error"}
          /\ ~fn_out.value.available
          /\ fn_out.value.path = NoneStr
          /\ fn_out.looked = {"preferred"}
    /\ (fn_in.fn = "probe_engine" /\ fn_out.returned) =>
          DOMAIN fn_out.value = {"available", "path", "version", "error"}

\* the probe of the missing path of the test has returned in an environment where every
\* other place holds an engine that would launch
C21_Witness ==
    /\ fn_in.fn = "probe_engine" /\ fn_out.returned
    /\ fn_in.preferred = MissingPath
    /\ fn_in.env.env_path = "/env/stockfish" /\ "/env/stockfish" \in fn_in.env.present
    /\ fn_in.env.project # NoneStr /\ fn_in.env.which # NoneStr /\ fn_in.env.launch.ok
    /\ ~fn_out.value.available /\ fn_out.value.error = "Stockfish not found"

\* the first n moves of pv are each parsable and legal in the position b reaches by the
\* moves before them
LegalPrefix(b, pv, n) ==
    \A k \in 1..n : pv[k] # "zz" /\ pv[k] \in legal_moves(b \o SubSeq(pv, 1, k - 1))

\* C28: _pv_to_san_safe returns, for every board and PV, the SAN of exactly the longest
\* prefix of the PV whose moves are each legal in the position reached by the PV moves
\* before them: it stops at the first illegal or unparsable move, includes nothing after
\* it, and leaves the caller's board as it was.
C28_LongestLegalPrefix ==
    (fn_in.fn = "_pv_to_san_safe" /\ fn_out.returned) =>
       LET b == fn_in.board
           pv == fn_in.pv_moves
           n == Len(fn_out.value)
       IN  /\ n <= Len(pv)
           /\ LegalPrefix(b, pv, n)
           /\ n < Len(pv) => ~LegalPrefix(b, pv, n + 1)
           /\ \A k \in 1..n : fn_out.value[k] = san(b \o SubSeq(pv, 1, k - 1), pv[k])
           /\ fn_out.board = b

\* after 1. f3, the PV e7e5 e2e5 g2g4 converts to its first move only, although its
\* third move would be legal after the first
C28_Witness ==
    /\ fn_in.fn = "_pv_to_san_safe" /\ fn_out.returned
    /\ fn_in.board = <<"f2f3">>
    /\ fn_in.pv_moves = <<"e7e5", "e2e5", "g2g4">>
    /\ fn_out.value = <<"e5">>
    /\ fn_out.board = <<"f2f3">>

\* C22: an on_move by a valid side on a running, unflagged clock that does not flag
\* charges exactly the time from the start of the running interval to the start of the
\* next one: what the two remaining times lose, the credited increment set aside, is the
\* new started_at_ms minus the old one, so that over a sequence of such calls the time
\* subtracted adds up to the time run and no time between two reads goes uncharged.
C22_NoTimeUncharged ==
    [][(/\ call'.op = "on_move" /\ call'.arg \in Sides
        /\ state.running /\ state.started_at_ms # NoTime
        /\ state.flagged = NoSide /\ state'.flagged = NoSide) =>
          (state.w_ms + state.b_ms + state.inc_ms) - (state'.w_ms + state'.b_ms)
             = state'.started_at_ms - state.started_at_ms]_vars

\* C23: a start, with any argument, on a clock whose stored flagged field is set leaves
\* every field of the stored state as it was, the active side included.
C23_StartOnFlaggedIsNoop ==
    [][(call'.op = "start" /\ state.flagged # NoSide) => state' = state]_vars

\* C24: in every reachable state in which the stored flagged field is set, running is
\* false: the clock is Stopped, Running or Flagged, never flagged and running at once.
C24_FlaggedNotRunning ==
    state.flagged # NoSide => ~state.running


\* ---------------------------------------------------------------- C25
\* the k-th pair of analyzer calls of a review: before(k) on the position after k-1
\* moves, after(k) on the position after k moves
ExpectedCall(i) ==
    IF i % 2 = 1 THEN [kind |-> "before", position |-> (i - 1) \div 2]
    ELSE [kind |-> "after", position |-> i \div 2]

\* C25: the analyzer calls of one review are made one after the other, two per ply in
\* move order: the i-th call is before(k) on the position after k-1 moves or after(k) on
\* the position after k moves, and a successful review of N plies has made exactly 2N
\* calls.
C25_TwoCallsPerPly ==
    /\ \A i \in 1..Len(calls) :
          /\ calls[i].kind = ExpectedCall(i).kind
          /\ calls[i].position = ExpectedCall(i).position
    /\ (rpc = "returned" /\ result.ok) =>
          /\ Len(calls) = 2 * pgn.plies
          /\ \A i \in 1..Len(calls) : calls[i].ok

C25_Witness ==
    /\ rpc = "returned" /\ result.ok /\ pgn.plies = MaxPly
    /\ Len(calls) = 2 * MaxPly
    /\ calls[Len(calls)] = [kind |-> "after", position |-> MaxPly, ok |-> TRUE]

\* ---------------------------------------------------------------- C26
\* C26: the first analyzer call that reports failure is the last call of the review:
\* the review has returned a failure, and the board still holds the position the failed
\* call was made on (no further move was applied).
C26_FailureShortCircuits ==
    \A i \in 1..Len(calls) :
       ~calls[i].ok =>
          /\ i = Len(calls)
          /\ rpc = "returned" /\ ~result.ok
          /\ board = calls[i].position

C26_Witness ==
    /\ pgn.plies = MaxPly /\ rpc = "returned"
    /\ Len(calls) = 2 /\ ~calls[2].ok /\ board = 1


\* ---------------------------------------------------------------- C27
\* C27: a snapshot() made while pause, on_move, start or reset runs on the same clock
\* does not raise, and the view it returns is the snapshot of the state before the other
\* call or the snapshot of the state after it, at the instant both calls read.
C27_SnapshotConsistent ==
    (threads[1].op = "snapshot" /\ threads[1].pc \in Finished) =>
       /\ threads[1].pc = "done"
       /\ threads[1].value \in {snapshot(entry, now),
                                snapshot(run(threads[2], entry, now), now)}


\* ---------------------------------------------------------------- C29
\* C29: with base_ms > 0, at every instant of every reachable state, the remaining times
\* and the flagged value that snapshot() reports are the ones pause() would store if it
\* were executed at that instant.
C29_ViewEqualsCommit ==
    state.base_ms > 0 =>
       LET v == snapshot(state, now)
           p == pause(state, now, now)
       IN  /\ v.w_ms = p.w_ms
           /\ v.b_ms = p.b_ms
           /\ v.flagged = p.flagged

\* a running clock whose active side has just run out, not yet committed: the view shows
\* zero and the flag, as the pause would store them
C29_Witness ==
    /\ state.base_ms > 0 /\ state.running /\ state.flagged = NoSide
    /\ state.turn = "w" /\ state.w_ms > 0
    /\ snapshot(state, now).w_ms = 0 /\ snapshot(state, now).flagged = "w"
    /\ pause(state, now, now).flagged = "w"

\* ---------------------------------------------------------------- C30
\* C30: with base_ms > 0, in every stored clock state, flagged is None exactly when both
\* remaining times are positive, and the flagged side holds no time.
C30_FlagIffZero ==
    state.base_ms > 0 =>
       /\ state.flagged = NoSide <=> (state.w_ms > 0 /\ state.b_ms > 0)
       /\ state.flagged = "w" => state.w_ms = 0
       /\ state.flagged = "b" => state.b_ms = 0

\* an on_move by the side that ran out has just flagged it, with an increment configured
C30_Witness ==
    /\ call.op = "on_move" /\ state.base_ms > 0 /\ state.inc_ms > 0
    /\ call.arg = state.flagged /\ Ms(state, state.flagged) = 0


\* ---------------------------------------------------------------- C31
\* C31: no call of start, pause or on_move charges the side that was not the active side
\* for time that had elapsed before the call: the time that side has left, as a snapshot()
\* shows it, is not lower right after the call than it was right before it.
C31_ElapsedChargedToActiveSide ==
    [][call'.op \in {"start", "pause", "on_move"} =>
          LET idle == Opp(ChargedSide(state))
          IN  Ms(snapshot(state', now'), idle) >= Ms(snapshot(state, now), idle)]_vars


\* ---------------------------------------------------------------- C32
\* C32: when the snapshot() that has just returned reported a flagged side (on a clock
\* with base_ms > 0), a snapshot() taken right after the next call, unless that call is
\* reset or configure, reports the same flagged side.
C32_SeenFlagStays ==
    [][(/\ state.base_ms > 0
        /\ view.op = "snapshot" /\ view.flagged # NoSide
        /\ call'.op \notin {"reset", "configure"}) =>
          snapshot(state', now').flagged = view.flagged]_vars


\* ---------------------------------------------------------------- C33
\* the sum of the six verdict counts of a summary
CountsTotal(counts) ==
    counts["Best"] + counts["Good"] + counts["Inaccuracy"] + counts["Mistake"]
       + counts["Blunder"] + counts["Mate"]

\* C33: a successful ReviewSummary has all six verdict counts, they sum to the number of
\* its MoveReviews, and the MoveReviews are those of plies 1..N of the game in move
\* order.
C33_CountsCoverPlies ==
    (rpc = "returned" /\ result.ok) =>
       /\ DOMAIN result.counts = Verdicts
       /\ \A v \in Verdicts : result.counts[v] >= 0
       /\ CountsTotal(result.counts) = Len(result.moves)
       /\ Len(result.moves) = pgn.plies
       /\ \A i \in 1..Len(result.moves) :
             /\ result.moves[i].ply = i
             /\ result.moves[i].move_uci = Mainline[i]

\* a review of two plies returned with its moves in two different buckets, one of them a
\* move whose loss could not be computed
C33_Witness ==
    /\ rpc = "returned" /\ result.ok /\ pgn.plies = MaxPly
    /\ result.counts["Mate"] = 1 /\ result.counts["Good"] = 1
    /\ \E i \in 1..Len(result.moves) :
          ~result.moves[i].cp_loss.some /\ result.moves[i].verdict = "Good"


\* ---------------------------------------------------------------- C34
\* C34: while the web server's clock is flagged, a /move or /ai/play request changes
\* neither the board position nor either side's remaining time nor the active side.
C34_NoMoveAfterFlag ==
    [][(clocks.flagged /\ resp'.op \in {"move", "ai_play"}) =>
          /\ game' = game
          /\ clocks'.w_ms = clocks.w_ms /\ clocks'.b_ms = clocks.b_ms
          /\ clocks'.turn = clocks.turn]_vars

====
